---- MODULE Spec2Model ----
(***************************************************************************)
(* Model of the `pack` binary of splore (src/bin/pack.rs): the control     *)
(* flow of main() from the first texture path to the manifest write.       *)
(*                                                                         *)
(* The placement algorithm itself is the external crate texture_packer     *)
(* (pack.rs:5, :16-18).  Its source is not part of this repository, so a   *)
(* call into it is modelled by what main() can observe of it: pack_own     *)
(* returns control and either has recorded a frame for the name or has     *)
(* not; export and the file operations either succeed or fail.             *)
(*                                                                         *)
(* A second specification, SceneSpec, models the renderer's Scene          *)
(* (src/scene.rs) over a loaded TextureAtlas (src/textureatlas.rs).        *)
(***************************************************************************)
EXTENDS Integers, Sequences, FiniteSets, TLC

\* ---- bounds of the model -------------------------------------------------
MaxPaths == 3      \* longest TEXTURES argument list explored
NumRects == 2      \* distinct rectangles the packer may hand back

\* ---- inputs --------------------------------------------------------------
Dirs  == {"x", "y"}
Stems == {"a", "b"}

\* A TEXTURES argument: <dir>/<stem>.png
Paths == [dir : Dirs, stem : Stems]

\* Frame rectangles as main() sees them: opaque values produced by the
\* packer (frame.frame.x, .y, .w, .h at pack.rs:68).
Rects == 1..NumRects

\* Path::file_stem (pack.rs:55): the file name without directory and
\* extension.
FileStem(p) == p.stem

PathLists == UNION {[1..n -> Paths] : n \in 1..MaxPaths}

VARIABLES
    paths,      \* the TEXTURES values, in argument order     (pack.rs:42)
    readable,   \* the paths ImageImporter can load           (environment)
    i,          \* position of the for loop                   (pack.rs:53)
    pc,         \* statement main() is about to execute
    packCalls,  \* names handed to pack_own so far, in order  (pack.rs:56)
    unplaced,   \* names for which pack_own recorded no frame
    frames,     \* packer.get_frames(): name -> rect          (pack.rs:67)
    manifest,   \* the `frames` BTreeMap built by main        (pack.rs:66-69)
    pngFile,    \* state of <output>.png on disk
    jsonFile,   \* state of <output>.json on disk
    json,       \* entries of the "frames" object, in serialized order
                \*                                             (pack.rs:70-75)
    texture,        \* Scene.texture: frame names of the loaded atlas
    sprites,        \* Scene.sprites: sprite name -> frame names
    vertex_buffer,  \* Scene.vertex_buffer, one entry per Vertex
    index_buffer,   \* Scene.index_buffer, one entry per u16 index
    status,         \* "none" before construction, "running", or the panic
    lookup          \* last TextureAtlas::get_frame: <<name, result>>

packVars == <<paths, readable, i, pc, packCalls, unplaced, frames, manifest,
              pngFile, jsonFile, json>>

sceneVars == <<texture, sprites, vertex_buffer, index_buffer, status, lookup>>

vars == <<packVars, sceneVars>>

NoFrames == [n \in {} |-> 0]

Init ==
    /\ paths \in PathLists
    /\ readable \in SUBSET Paths
    /\ i = 1
    /\ pc = "import"
    /\ packCalls = <<>>
    /\ unplaced = {}
    /\ frames = NoFrames
    /\ manifest = NoFrames
    /\ pngFile = "absent"
    /\ jsonFile = "absent"
    /\ json = <<>>
    /\ texture = {}
    /\ sprites = NoFrames
    /\ vertex_buffer = <<>>
    /\ index_buffer = <<>>
    /\ status = "none"
    /\ lookup = <<>>

\* HashMap::insert / BTreeMap::insert: a later value replaces an earlier one
\* under the same key.
Insert(m, k, v) == [n \in DOMAIN m \cup {k} |-> IF n = k THEN v ELSE m[n]]

\* pack.rs:54  ImageImporter::import_from_file(path).unwrap()
ImportFromFileIgnoringErrors ==
    /\ pc = "import"
    /\ IF paths[i] \in readable
         THEN /\ pc' = "pack"
              /\ i' = i
         ELSE /\ i' = i + 1
              /\ pc' = IF i + 1 > Len(paths) THEN "export" ELSE "import"
    /\ UNCHANGED <<json, sceneVars, paths, readable, packCalls, unplaced, frames, manifest,
                   pngFile, jsonFile>>

ImportFromFile ==
    /\ pc = "import"
    /\ pc' = IF paths[i] \in readable THEN "pack" ELSE "panicked"
    /\ UNCHANGED <<json, sceneVars, paths, readable, i, packCalls, unplaced, frames, manifest,
                   pngFile, jsonFile>>

\* pack.rs:55-56  name = file_stem(path); packer.pack_own(name, texture);
\* The value of the call is discarded and the loop moves to the next path.
PackOwn ==
    /\ pc = "pack"
    /\ LET name == FileStem(paths[i]) IN
         /\ packCalls' = Append(packCalls, name)
         /\ \/ \E r \in Rects :
                 /\ frames' = Insert(frames, name, r)
                 /\ unplaced' = unplaced
            \/ /\ frames' = frames
               /\ unplaced' = unplaced \cup {name}
    /\ i' = i + 1
    /\ pc' = IF i + 1 > Len(paths) THEN "export" ELSE "import"
    /\ UNCHANGED <<json, sceneVars, paths, readable, manifest, pngFile, jsonFile>>

\* pack.rs:59  ImageExporter::export(&packer).unwrap()
Export ==
    /\ pc = "export"
    /\ \E ok \in BOOLEAN : pc' = IF ok THEN "create_png" ELSE "panicked"
    /\ UNCHANGED <<json, sceneVars, paths, readable, i, packCalls, unplaced, frames, manifest,
                   pngFile, jsonFile>>

\* pack.rs:61  File::create("<output>.png").unwrap()
CreatePng ==
    /\ pc = "create_png"
    /\ \E ok \in BOOLEAN :
         IF ok THEN pngFile' = "empty" /\ pc' = "save_png"
               ELSE pngFile' = pngFile /\ pc' = "panicked"
    /\ UNCHANGED <<json, sceneVars, paths, readable, i, packCalls, unplaced, frames, manifest,
                   jsonFile>>

\* pack.rs:63  packed.save(&mut outfile, image::PNG).unwrap()
SavePng ==
    /\ pc = "save_png"
    /\ \E ok \in BOOLEAN :
         IF ok THEN pngFile' = "complete" /\ pc' = "build_frames"
               ELSE pngFile' = "partial" /\ pc' = "panicked"
    /\ UNCHANGED <<json, sceneVars, paths, readable, i, packCalls, unplaced, frames, manifest,
                   jsonFile>>

\* Bytes of a name: Rust compares Strings byte by byte (Ord for String,
\* the key order of the BTreeMap at pack.rs:66).
Utf8 == ("a" :> <<97>>) @@ ("b" :> <<98>>)

\* Lexicographic order on byte sequences: the first differing byte decides,
\* a proper prefix comes first.
SeqLess(s, t) ==
    \/ /\ Len(s) < Len(t)
       /\ \A k \in 1..Len(s) : s[k] = t[k]
    \/ \E k \in 1..Len(s) :
         /\ k <= Len(t)
         /\ \A j \in 1..(k - 1) : s[j] = t[j]
         /\ s[k] < t[k]

StrLess(a, b) == SeqLess(Utf8[a], Utf8[b])

\* The orders in which a HashMap may hand out its keys (get_frames().iter(),
\* pack.rs:67): any sequence holding every key once.
IterOrders(m) ==
    {o \in [1..Cardinality(DOMAIN m) -> DOMAIN m] :
        \A j, k \in DOMAIN o : j # k => o[j] # o[k]}

\* The BTreeMap after inserting the entries of m in the order o
\* (pack.rs:67-69).
RECURSIVE InsertAll(_, _, _)
InsertAll(acc, m, o) ==
    IF o = <<>> THEN acc
    ELSE InsertAll(Insert(acc, Head(o), m[Head(o)]), m, Tail(o))

\* BTreeMap iteration: the keys in ascending order.
RECURSIVE SortedKeys(_)
SortedKeys(S) ==
    IF S = {} THEN <<>>
    ELSE LET least == CHOOSE x \in S : \A y \in S \ {x} : StrLess(x, y)
         IN  <<least>> \o SortedKeys(S \ {least})

\* to_value(&frames) (pack.rs:70-71): the object's entries, in the order the
\* map yields them.
Entries(m) ==
    LET ks == SortedKeys(DOMAIN m)
    IN  [k \in 1..Len(ks) |-> <<ks[k], m[ks[k]]>>]

\* pack.rs:65-71 with a Vec of pairs in place of the BTreeMap: the entries
\* come out in the iteration order of get_frames().
BuildFramesInIterationOrder ==
    /\ pc = "build_frames"
    /\ \E o \in IterOrders(frames) :
         /\ manifest' = InsertAll(NoFrames, frames, o)
         /\ json' = [k \in 1..Len(o) |-> <<o[k], frames[o[k]]>>]
    /\ pc' = "create_json"
    /\ UNCHANGED <<sceneVars, paths, readable, i, packCalls, unplaced, frames,
                   pngFile, jsonFile>>

\* pack.rs:65-71  copy every (name, frame) of get_frames() into a BTreeMap
\* and turn it into the JSON value
BuildFrames ==
    /\ pc = "build_frames"
    /\ \E o \in IterOrders(frames) :
         /\ manifest' = InsertAll(NoFrames, frames, o)
         /\ json' = Entries(manifest')
    /\ pc' = "create_json"
    /\ UNCHANGED <<sceneVars, paths, readable, i, packCalls, unplaced, frames,
                   pngFile, jsonFile>>

\* pack.rs:73  File::create("<output>.json").unwrap()
CreateJson ==
    /\ pc = "create_json"
    /\ \E ok \in BOOLEAN :
         IF ok THEN jsonFile' = "empty" /\ pc' = "serialize"
               ELSE jsonFile' = jsonFile /\ pc' = "panicked"
    /\ UNCHANGED <<json, sceneVars, paths, readable, i, packCalls, unplaced, frames, manifest,
                   pngFile>>

\* pack.rs:74-75  json.serialize(&mut serializer);  -- the Result is dropped,
\* main returns normally whether or not the write went through.
SerializeJson ==
    /\ pc = "serialize"
    /\ \E ok \in BOOLEAN :
         jsonFile' = IF ok THEN "complete" ELSE "partial"
    /\ pc' = "done"
    /\ UNCHANGED <<json, sceneVars, paths, readable, i, packCalls, unplaced, frames, manifest,
                   pngFile>>

Next ==
    \/ ImportFromFile
    \/ PackOwn
    \/ Export
    \/ CreatePng
    \/ SavePng
    \/ BuildFrames
    \/ CreateJson
    \/ SerializeJson

Spec == Init /\ [][Next]_vars

\* ---- the renderer's Scene (src/scene.rs, src/textureatlas.rs) -----------
MaxCapacity == 2   \* largest n given to Scene::with_capacity
MaxFrames   == 2   \* longest frame list given to add_sprite

DefaultCapacity == 50   \* Scene::new: Scene::with_capacity(display, texture, 50)

VStride == 20      \* mem::size_of::<Vertex>(): [f32; 3] + [f32; 2]
IStride == 2       \* mem::size_of::<u16>()

SpriteNames == {"s1", "s2", "s3"}

FrameLists == UNION {[1..n -> Stems] : n \in 0..MaxFrames}

\* Contents of a buffer element nothing has been written to.
Unspecified == "unspecified"

\* VertexBuffer::empty_dynamic(display, len) / IndexBuffer::empty_dynamic
EmptyDynamic(len) == [k \in 1..len |-> Unspecified]

\* Buffer::get_size(): the size of the buffer in bytes.
GetSize(buf, stride) == Len(buf) * stride

\* Buffer::slice(lo..hi): None when the range leaves the buffer.
SliceInRange(buf, lo, hi) == lo <= hi /\ hi <= Len(buf)

\* BufferSlice::write(data) on the slice lo..lo+Len(data)
WriteSlice(buf, lo, data) ==
    [k \in 1..Len(buf) |->
        IF k > lo /\ k <= lo + Len(data) THEN data[k - lo] ELSE buf[k]]

\* Buffer::copy_to(target): copies when source and target have the same
\* size, and reports an error (dropped at scene.rs:196-197) otherwise.
CopyTo(src, dst, len) ==
    IF Len(src) = len
      THEN [k \in 1..Len(dst) |-> IF k <= len THEN src[k] ELSE dst[k]]
      ELSE dst

\* Scene::extend_buffers, one buffer: a new buffer of `per` elements for
\* each of 2 * sprites.len() sprites, the old contents copied to its start.
ExtendBuffer(buf, nsprites, per) ==
    CopyTo(buf, EmptyDynamic(nsprites * 2 * per), nsprites * per)

\* The state in which main.rs has built no Scene / the packer is not run.
PackIdle ==
    /\ paths = <<>>
    /\ readable = {}
    /\ i = 1
    /\ pc = "none"
    /\ packCalls = <<>>
    /\ unplaced = {}
    /\ frames = NoFrames
    /\ manifest = NoFrames
    /\ pngFile = "absent"
    /\ jsonFile = "absent"
    /\ json = <<>>

\* Scene::with_capacity(display, texture, n), or Scene::new with its
\* capacity of 50, over an atlas holding any subset of the frame names.
SceneInit ==
    /\ PackIdle
    /\ texture \in SUBSET Stems
    /\ sprites = NoFrames
    /\ \E n \in (1..MaxCapacity) \cup {DefaultCapacity} :
         /\ vertex_buffer = EmptyDynamic(4 * n)
         /\ index_buffer = EmptyDynamic(6 * n)
    /\ status = "running"
    /\ lookup = <<>>

\* TextureAtlas::get_frame(name): Some(frame) or None
GetFrame(name) ==
    /\ status = "running"
    /\ lookup' = <<name, IF name \in texture THEN "Some" ELSE "None">>
    /\ UNCHANGED <<packVars, texture, sprites, vertex_buffer, index_buffer,
                   status>>

\* Scene::add_sprite(name, frames)
AddSprite(name, fr) ==
    /\ status = "running"
    /\ IF Len(fr) = 0
         THEN \* assert!(frames.len() > 0)
              /\ status' = "panic_assert"
              /\ UNCHANGED <<sprites, vertex_buffer, index_buffer>>
       ELSE IF \E k \in 1..Len(fr) : fr[k] \notin texture
         THEN \* get_frame(x).expect("No frame with name: ..")
              /\ status' = "panic_no_frame"
              /\ UNCHANGED <<sprites, vertex_buffer, index_buffer>>
       ELSE
         LET nsprites == Cardinality(DOMAIN sprites)
             voffset  == 4 * nsprites
             ioffset  == 6 * nsprites
             extend   == GetSize(vertex_buffer, VStride) < voffset * VStride
             vb       == IF extend THEN ExtendBuffer(vertex_buffer, nsprites, 4)
                                   ELSE vertex_buffer
             ib       == IF extend THEN ExtendBuffer(index_buffer, nsprites, 6)
                                   ELSE index_buffer
             frame    == fr[1]
             index    == (nsprites * 4) % 65536
             vertices == << <<0, 0, frame, "u1", "v1">>,
                            <<0, 16, frame, "u1", "v2">>,
                            <<16, 16, frame, "u2", "v2">>,
                            <<16, 0, frame, "u2", "v1">> >>
             indices  == <<index + 1, index + 2, index,
                           index + 2, index, index + 3>>
         IN  IF ~SliceInRange(vb, voffset, voffset + 4)
               THEN /\ status' = "panic_vertex_slice"
                    /\ vertex_buffer' = vb
                    /\ index_buffer' = ib
                    /\ UNCHANGED sprites
             ELSE IF ~SliceInRange(ib, ioffset, ioffset + 6)
               THEN /\ status' = "panic_index_slice"
                    /\ vertex_buffer' = WriteSlice(vb, voffset, vertices)
                    /\ index_buffer' = ib
                    /\ UNCHANGED sprites
             ELSE /\ vertex_buffer' = WriteSlice(vb, voffset, vertices)
                  /\ index_buffer' = WriteSlice(ib, ioffset, indices)
                  /\ sprites' = Insert(sprites, name, fr)
                  /\ UNCHANGED status
    /\ UNCHANGED <<packVars, texture, lookup>>

\* Scene::draw(surface, viewproj): the slices are taken over
\* 0..sprites.len() * 4 * size_of::<Vertex>() and
\* 0..sprites.len() * 6 * size_of::<u16>(), byte counts handed to slice as
\* element ranges, each unwrapped with expect; then surface.draw(..).unwrap().
Draw ==
    /\ status = "running"
    /\ LET nsprites == Cardinality(DOMAIN sprites)
           vend     == nsprites * 4 * VStride
           iend     == nsprites * 6 * IStride
       IN  IF ~SliceInRange(vertex_buffer, 0, vend)
             THEN status' = "panic_draw_vertex_slice"
           ELSE IF ~SliceInRange(index_buffer, 0, iend)
             THEN status' = "panic_draw_index_slice"
           ELSE \E ok \in BOOLEAN :
                  status' = IF ok THEN status ELSE "panic_draw"
    /\ UNCHANGED <<packVars, texture, sprites, vertex_buffer, index_buffer,
                   lookup>>

SceneNext ==
    \/ \E name \in Stems : GetFrame(name)
    \/ \E name \in SpriteNames, fr \in FrameLists : AddSprite(name, fr)
    \/ Draw

SceneSpec == SceneInit /\ [][SceneNext]_vars

\* ---- vocabulary of the properties ---------------------------------------
Terminated == pc \in {"done", "panicked"}

NoOutput == pngFile = "absent" /\ jsonFile = "absent"

HasDuplicateName ==
    \E j, k \in 1..Len(paths) : j # k /\ FileStem(paths[j]) = FileStem(paths[k])

BadIndexes == {k \in 1..Len(paths) : paths[k] \notin readable}

FirstBad == CHOOSE k \in BadIndexes : \A j \in BadIndexes : k <= j

TypeOK ==
    /\ paths \in PathLists
    /\ readable \subseteq Paths
    /\ i \in 1..(MaxPaths + 1)
    /\ pc \in {"import", "pack", "export", "create_png", "save_png",
               "build_frames", "create_json", "serialize", "done", "panicked"}
    /\ unplaced \subseteq Stems
    /\ DOMAIN frames \subseteq Stems
    /\ pngFile \in {"absent", "empty", "partial", "complete"}
    /\ jsonFile \in {"absent", "empty", "partial", "complete"}

\* C3: if some image could not be placed, the run ends with a capacity
\* error and writes neither <output>.png nor <output>.json.
C3_CapacityErrorAborts ==
    (unplaced # {}) =>
        /\ NoOutput
        /\ pc \notin {"export", "create_png", "save_png", "build_frames",
                      "create_json", "serialize", "done"}

\* C4: at termination either both output files are written completely or
\* neither exists.
C4_AllOrNothing ==
    Terminated =>
        \/ pngFile = "complete" /\ jsonFile = "complete"
        \/ NoOutput

\* C5: a batch with a duplicate name is rejected before the first pack call,
\* so such a run makes no pack call and writes no output.
C5_DuplicatesRejectedUpFront ==
    HasDuplicateName => (packCalls = <<>> /\ NoOutput)

\* C6 (as claimed): a batch with a missing or unreadable path makes no pack
\* call for any image, earlier ones included, and writes no output.
C6_NoPackBeforeInputError ==
    (BadIndexes # {}) => (packCalls = <<>> /\ NoOutput)

\* C6 (amended): a run over a batch with a missing or unreadable path stops
\* at the first such path: only the images listed before it are handed to
\* pack_own, nothing from that path on is, the run never completes normally
\* and no output file is written.
C6_AbortAtFirstInputError ==
    (BadIndexes # {}) =>
        /\ Len(packCalls) < FirstBad
        /\ \A k \in 1..Len(packCalls) : packCalls[k] = FileStem(paths[k])
        /\ pc \in {"import", "pack", "panicked"}
        /\ NoOutput

\* C6 witness: the run has aborted on an unreadable path after an earlier
\* image was already packed.
C6_Witness ==
    /\ BadIndexes # {}
    /\ pc = "panicked"
    /\ Len(packCalls) >= 1
    /\ Len(packCalls) = FirstBad - 1

\* ---- manifest ------------------------------------------------------------
ManifestBuilt == pc \in {"create_json", "serialize", "done"}

PackedNames == {packCalls[k] : k \in 1..Len(packCalls)}

\* C13: once the manifest is built, "frames" holds exactly one entry per
\* name the packer recorded a frame for, each mapped to that frame's
\* rectangle, and the entries are in strictly ascending lexicographic order
\* of name whatever the order of packing was.
C13_ManifestContentAndOrder ==
    ManifestBuilt =>
        /\ Len(json) = Cardinality(DOMAIN frames)
        /\ {json[k][1] : k \in 1..Len(json)} = DOMAIN frames
        /\ DOMAIN frames \subseteq PackedNames
        /\ PackedNames \ unplaced \subseteq DOMAIN frames
        /\ \A k \in 1..Len(json) : json[k][2] = frames[json[k][1]]
        /\ \A k \in 1..(Len(json) - 1) : StrLess(json[k][1], json[k + 1][1])

\* C13 witness: a finished run that packed "b" before "a" and wrote both.
C13_Witness ==
    /\ pc = "done"
    /\ jsonFile = "complete"
    /\ Len(packCalls) >= 2
    /\ packCalls[1] = "b"
    /\ packCalls[2] = "a"
    /\ Len(json) = 2

\* ---- scene ---------------------------------------------------------------
\* C15: a frame name absent from the manifest is reported as "no such
\* frame" by the lookup, and no operation given such a name terminates the
\* renderer.
C15_MissingFrameRecoverable ==
    /\ (Len(lookup) = 2 /\ lookup[1] \notin texture) => lookup[2] = "None"
    /\ status # "panic_no_frame"

\* C18: an add_sprite call with valid frame names always finds room for its
\* 4 vertices and 6 indices, the buffers having been extended before a
\* sprite would be written past their end; it never fails to take its
\* slices, the call made on exactly full buffers included.
C18_RoomForNextSprite ==
    status \notin {"panic_vertex_slice", "panic_index_slice"}
====
